---- MODULE Spec2Model ----
(***************************************************************************)
(* Hash-chained audit event log of backend/app/services/audit_service.py:  *)
(* canonical_json, compute_event_hash, append_audit_event,                 *)
(* check_litigation_hold, verify_audit_chain, and the /audit router.       *)
(*                                                                         *)
(* Text is a sequence of symbols.  A symbol is a record: [c |-> "x"] is    *)
(* the character x, [ts |-> n] the date-and-time digits of instant n, and  *)
(* [sha |-> s] the hex digest of the text s (the digest is taken to be     *)
(* collision free, so it is represented by its preimage).                  *)
(***************************************************************************)
EXTENDS Integers, Sequences, FiniteSets, TLC

VARIABLES dialect, store, clock, lock, pc, call, ev, res, out, holds, edit, domain, packages, job, ingestion_jobs, delayed, response, chain, pending_events, verified

vars == <<dialect, store, clock, lock, pc, call, ev, res, out, holds, edit, domain, packages, job, ingestion_jobs, delayed, response, chain, pending_events, verified>>

----------------------------------------------------------------------------
(* Bounds *)

MaxEvents == 2

MaxClock == 1

NumProcs == 2

MaxSeed == 4

MaxOps == 3

Procs == 1..NumProcs

----------------------------------------------------------------------------
(* Text and Python values *)

Txt(s) == [i \in DOMAIN s |-> [c |-> s[i]]]

None == <<[none |-> TRUE]>>

\* Python truthiness of an optional string: None and "" are falsy.
Truthy(v) == v # None /\ v # <<>>

\* `x or ""`
OrEmpty(v) == IF Truthy(v) THEN v ELSE <<>>

\* `str(x) if x else None`
StrOrNone(v) == IF Truthy(v) THEN v ELSE None

\* datetime: instant t, tz = TRUE for an aware (UTC) value, FALSE for naive.
DateTime(t, tz) == [t |-> t, tz |-> tz]

\* datetime.isoformat(): an aware UTC value carries the "+00:00" offset.
isoformat(dt) == <<[ts |-> dt.t]>> \o (IF dt.tz THEN Txt(<<"+", "0", "0", ":", "0", "0">>) ELSE <<>>)

\* now_utc(): the wall clock, timezone aware.
now_utc(clk) == DateTime(clk, TRUE)

\* Column(DateTime) without timezone=True: the value read back is naive.
StoredDateTime(dt) == DateTime(dt.t, FALSE)

----------------------------------------------------------------------------
(* JSON: a payload is a Python dict in insertion order, a sequence of      *)
(* <<key, value>> pairs with distinct one-character keys and one-digit     *)
(* integer values; a JSON value is [t |-> "obj" | "num" | "err", v |-> _]. *)

Keys == {"a", "b"}

Digits == {"1", "2"}

KeyRank(k) == IF k = "a" THEN 1 ELSE 2

SP == [c |-> " "]

Obj(items) == [t |-> "obj", v |-> items]

Num(d) == [t |-> "num", v |-> <<<<"n", d>>>>]

JsonError == [t |-> "err", v |-> <<>>]

RECURSIVE InsertSorted(_, _)
InsertSorted(sorted, kv) ==
    IF sorted = <<>> THEN <<kv>>
    ELSE IF KeyRank(kv[1]) < KeyRank(Head(sorted)[1]) THEN <<kv>> \o sorted
    ELSE <<Head(sorted)>> \o InsertSorted(Tail(sorted), kv)

RECURSIVE SortKeys(_)
SortKeys(items) ==
    IF items = <<>> THEN <<>> ELSE InsertSorted(SortKeys(Tail(items)), Head(items))

RECURSIVE JoinItems(_)
JoinItems(items) ==
    IF items = <<>> THEN <<>>
    ELSE Txt(<<"\"", Head(items)[1], "\"", ":", Head(items)[2]>>)
         \o (IF Tail(items) = <<>> THEN <<>> ELSE Txt(<<",">>) \o JoinItems(Tail(items)))

\* json.dumps(data, separators=(",", ":")): the keys in insertion order.
canonical_json_unsorted(data) ==
    IF data.t = "num" THEN Txt(<<data.v[1][2]>>)
    ELSE Txt(<<"{">>) \o JoinItems(data.v) \o Txt(<<"}">>)

\* json.dumps(data, sort_keys=True, separators=(",", ":"))
canonical_json(data) ==
    IF data.t = "num" THEN Txt(<<data.v[1][2]>>)
    ELSE Txt(<<"{">>) \o JoinItems(SortKeys(data.v)) \o Txt(<<"}">>)

\* A value json.dumps cannot encode (a datetime object).
NotJson == "D"

\* json.dumps accepts the dict: every value is a JSON type.
Serializable(data) == data.t = "num" \/ \A i \in DOMAIN data.v : data.v[i][2] \in Digits

\* dict[k] = v: an existing key keeps its position and takes the new value.
DictSet(items, kv) ==
    IF \E i \in DOMAIN items : items[i][1] = kv[1]
    THEN [i \in DOMAIN items |-> IF items[i][1] = kv[1] THEN kv ELSE items[i]]
    ELSE Append(items, kv)

IsPair(s, at) ==
    /\ at + 4 <= Len(s)
    /\ s[at] = [c |-> "\""]
    /\ \E k \in Keys : s[at + 1] = [c |-> k]
    /\ s[at + 2] = [c |-> "\""]
    /\ s[at + 3] = [c |-> ":"]
    /\ \E d \in Digits : s[at + 4] = [c |-> d]

RECURSIVE ParseMembers(_, _, _)
ParseMembers(s, at, acc) ==
    IF ~IsPair(s, at) THEN JsonError
    ELSE LET acc2 == DictSet(acc, <<s[at + 1].c, s[at + 4].c>>)
         IN  IF at + 4 = Len(s) THEN Obj(acc2)
             ELSE IF s[at + 5] = [c |-> ","] THEN ParseMembers(s, at + 6, acc2)
             ELSE JsonError

\* json.loads(text): whitespace between tokens is skipped; anything that is
\* not one JSON document raises (JsonError).
json_loads(text) ==
    LET s == SelectSeq(text, LAMBDA ch : ch # SP)
    IN  IF Len(s) = 1 /\ (\E d \in Digits : s[1] = [c |-> d]) THEN Num(s[1].c)
        ELSE IF Len(s) < 2 \/ s[1] # [c |-> "{"] \/ s[Len(s)] # [c |-> "}"] THEN JsonError
        ELSE IF Len(s) = 2 THEN Obj(<<>>)
        ELSE ParseMembers(SubSeq(s, 2, Len(s) - 1), 1, <<>>)

----------------------------------------------------------------------------
(* Chain Hasher *)

\* hashlib.sha256(...).hexdigest(), collision free.
sha256(input) == <<[sha |-> input]>>

compute_event_hash(prev_event_hash, event_type, actor_id, entity_type, entity_id, event_payload, created_at) ==
    sha256(OrEmpty(prev_event_hash) \o OrEmpty(event_type) \o OrEmpty(actor_id)
           \o OrEmpty(entity_type) \o OrEmpty(entity_id)
           \o canonical_json(event_payload) \o isoformat(created_at))

----------------------------------------------------------------------------
(* Registry, stored rows and queries *)

OrgA == Txt(<<"A">>)

OrgB == Txt(<<"B">>)

OrgX == Txt(<<"X">>)

\* Client rows (clients.client_id); OrgX has none.
Clients == {OrgA, OrgB}

OrgArgs == {OrgA, OrgB, OrgX}

\* GET /audit/events takes an optional org_id.
QueryArgs == OrgArgs \cup {None}

EventTypes == {Txt(<<"S">>)}

Actors == {Txt(<<"u">>)}

EntityTypes == {Txt(<<"s">>)}

EntityIds == {Txt(<<"7">>)}

Payloads == {Obj(<<<<"b", "2">>, <<"a", "1">>>>)}

CallArgs == [event_type : EventTypes, actor_id : Actors, org_id : OrgArgs,
             entity_type : EntityTypes, entity_id : EntityIds, event_payload : Payloads]

NoCall == [event_type |-> None, actor_id |-> None, org_id |-> None,
           entity_type |-> None, entity_id |-> None, event_payload |-> Obj(<<>>)]

\* AuditEvent row
AuditEvent(id, event_type, actor_id, org_id, entity_type, entity_id, event_payload, created_at, prev_event_hash, event_hash) ==
    [id |-> id, event_type |-> event_type, actor_id |-> actor_id, org_id |-> org_id,
     entity_type |-> entity_type, entity_id |-> entity_id, event_payload |-> event_payload,
     created_at |-> created_at, prev_event_hash |-> prev_event_hash, event_hash |-> event_hash]

NoEvent == AuditEvent(0, None, None, None, None, None, <<>>, DateTime(0, FALSE), None, None)

\* An upsert on the organization: the new row takes the place of its rows.
InsertRowReplacing(rows, e) ==
    {r \in rows : r.org_id # e.org_id} \cup {[e EXCEPT !.created_at = StoredDateTime(e.created_at)]}

\* INSERT of the row: a DateTime column keeps no offset.
InsertRow(rows, e) == rows \cup {[e EXCEPT !.created_at = StoredDateTime(e.created_at)]}

\* filter(AuditEvent.org_id == org_id); `== None` is rendered IS NULL.
OrgRows(rows, org_id) == {r \in rows : r.org_id = org_id}

\* The last row of the whole table, whatever its organization.
LastEventsAnyOrg(rows, org_id) ==
    {r \in rows : \A q \in rows : q.created_at.t <= r.created_at.t}

\* order_by(AuditEvent.created_at.desc()).first(): a row with the greatest
\* created_at; which one of several equal ones is up to the database.
LastEvents(rows, org_id) ==
    {r \in OrgRows(rows, org_id) : \A q \in OrgRows(rows, org_id) : q.created_at.t <= r.created_at.t}

\* order_by(AuditEvent.created_at).all(): the rows in ascending created_at;
\* the order of rows with equal created_at is up to the database.
Orderings(rows) ==
    LET n == Cardinality(rows)
    IN  {s \in [1..n -> rows] :
            /\ \A i, j \in 1..n : i # j => s[i] # s[j]
            /\ \A i, j \in 1..n : i < j => s[i].created_at.t <= s[j].created_at.t}

----------------------------------------------------------------------------
(* Chain Verifier *)

Valid == [status |-> "ok", valid |-> TRUE, first_invalid_event_id |-> 0]

Invalid(id) == [status |-> "ok", valid |-> FALSE, first_invalid_event_id |-> id]

\* json.loads raised inside the loop: the call ends with the exception.
Raised(id) == [status |-> "raised", valid |-> FALSE, first_invalid_event_id |-> id]

\* The hash verify_audit_chain recomputes for a stored row.
ExpectedHash(prev_hash, event) ==
    compute_event_hash(prev_hash, event.event_type, event.actor_id, event.entity_type,
                       event.entity_id, json_loads(event.event_payload), event.created_at)

RECURSIVE VerifyWalk(_, _, _)
VerifyWalk(events, i, prev_hash) ==
    IF i > Len(events) THEN Valid
    ELSE IF json_loads(events[i].event_payload) = JsonError THEN Raised(events[i].id)
    ELSE IF events[i].event_hash # ExpectedHash(prev_hash, events[i]) THEN Invalid(events[i].id)
    ELSE VerifyWalk(events, i + 1, events[i].event_hash)

\* A verifier that takes an organization without events for an invalid chain.
verify_audit_chain_nonempty(events) ==
    IF events = <<>> THEN Invalid(0) ELSE VerifyWalk(events, 1, None)

\* verify_audit_chain on the rows the query returned, in the order returned.
verify_audit_chain(events) == VerifyWalk(events, 1, None)

\* Every result verify_audit_chain can give for the organization's rows.
ChainResults(rows, org_id) ==
    {verify_audit_chain(events) : events \in Orderings(OrgRows(rows, org_id))}

----------------------------------------------------------------------------
(* State *)

\* What the caller of append_audit_event gets: the event, or an exception of
\* class exc; cause is what went wrong underneath.
NoResult == [kind |-> "none", event |-> NoEvent, exc |-> "none", cause |-> "none"]

Returned(event) == [kind |-> "event", event |-> event, exc |-> "none", cause |-> "none"]

Failure(exc, cause) == [kind |-> "error", event |-> NoEvent, exc |-> exc, cause |-> cause]

\* A collaborator's export in progress: its organization, the time it took
\* at its start and the package hash it has computed.
NoJob == [op |-> "none", org_id |-> None, now |-> 0, package_hash |-> None]

\* The directory regulatory_exports: the files of the export directories and
\* the zip archives made of them.
NoPackages == [files |-> {}, zips |-> {}]

NoOut == [op |-> "none", org_id |-> None, result |-> Valid, events |-> <<>>, active |-> FALSE]

NoEdit == [kind |-> "none", id |-> 0, was |-> NoEvent]

\* What POST /ingestion/irs990 answered last: the HTTP status, the caller, the
\* request body and the id of the job returned (0 when none).
NoResponse == [status |-> 0, user |-> None, org_id |-> None, ein |-> <<>>, job_id |-> 0]

\* What BlockchainAuditTrail.verify_chain returned last: (is_valid, errors).
NoVerdict == [called |-> FALSE, is_valid |-> FALSE, errors |-> <<>>]

Dialects == {"postgresql", "sqlite"}

\* LitigationHold rows, one per org_id: an active one, an inactive one, and
\* none for OrgX.
HoldTable == {[org_id |-> OrgA, active |-> TRUE], [org_id |-> OrgB, active |-> FALSE]}

Init ==
    /\ dialect \in Dialects
    /\ store = {}
    /\ clock = 0
    /\ lock = [o \in Clients |-> 0]
    /\ pc = [p \in Procs |-> "idle"]
    /\ call = [p \in Procs |-> NoCall]
    /\ ev = [p \in Procs |-> NoEvent]
    /\ res = [p \in Procs |-> NoResult]
    /\ out = NoOut
    /\ holds = HoldTable
    /\ edit = NoEdit
    /\ domain = {}
    /\ packages = NoPackages
    /\ job = [p \in Procs |-> NoJob]
    /\ ingestion_jobs = {}
    /\ delayed = <<>>
    /\ response = NoResponse
    /\ chain = <<>>
    /\ pending_events = <<>>
    /\ verified = NoVerdict

\* The wall clock advances on its own; two reads may see the same instant.
Tick ==
    /\ clock < MaxClock
    /\ clock' = clock + 1
    /\ UNCHANGED <<dialect, store, lock, pc, call, ev, res, out, holds, edit, domain, packages, job, ingestion_jobs, delayed, response, chain, pending_events, verified>>

\* A collaborator calls append_audit_event.
Call(p, args) ==
    /\ pc[p] = "idle"
    /\ Cardinality(store) + Cardinality({q \in Procs : pc[q] # "idle"}) < MaxEvents
    /\ pc' = [pc EXCEPT ![p] = "lock"]
    /\ call' = [call EXCEPT ![p] = args]
    /\ UNCHANGED <<dialect, store, clock, lock, ev, res, out, holds, edit, domain, packages, job, ingestion_jobs, delayed, response, chain, pending_events, verified>>

\* with_for_update() takes a row lock only where the database has one and
\* only on a row that exists.
RowLocked(org_id) == dialect = "postgresql" /\ org_id \in Clients

\* One lock for the whole table of clients.
LockGlobal(p) ==
    /\ pc[p] = "lock"
    /\ IF Truthy(call[p].org_id) /\ RowLocked(call[p].org_id)
       THEN IF \A o \in Clients : lock[o] = 0
            THEN /\ lock' = [lock EXCEPT ![call[p].org_id] = p]
                 /\ pc' = [pc EXCEPT ![p] = "read"]
                 /\ UNCHANGED res
            ELSE /\ pc' = [pc EXCEPT ![p] = "done"]
                 /\ res' = [res EXCEPT ![p] = Failure("OperationalError", "lock_timeout")]
                 /\ UNCHANGED lock
       ELSE /\ pc' = [pc EXCEPT ![p] = "read"]
            /\ UNCHANGED <<lock, res>>
    /\ UNCHANGED <<dialect, store, clock, call, ev, out, holds, edit, domain, packages, job, ingestion_jobs, delayed, response, chain, pending_events, verified>>

\* Lines 31-32: lock the Client row; the row returned (or None) is not looked
\* at.  While another transaction holds the row the query waits; the wait
\* ends when the row is released or, by the database's lock timeout, with an
\* OperationalError that is not caught.
Lock(p) ==
    /\ pc[p] = "lock"
    /\ IF Truthy(call[p].org_id) /\ RowLocked(call[p].org_id)
       THEN IF lock[call[p].org_id] = 0
            THEN /\ lock' = [lock EXCEPT ![call[p].org_id] = p]
                 /\ pc' = [pc EXCEPT ![p] = "read"]
                 /\ UNCHANGED res
            ELSE /\ pc' = [pc EXCEPT ![p] = "done"]
                 /\ res' = [res EXCEPT ![p] = Failure("OperationalError", "lock_timeout")]
                 /\ UNCHANGED lock
       ELSE /\ pc' = [pc EXCEPT ![p] = "read"]
            /\ UNCHANGED <<lock, res>>
    /\ UNCHANGED <<dialect, store, clock, call, ev, out, holds, edit, domain, packages, job, ingestion_jobs, delayed, response, chain, pending_events, verified>>

\* Lines 35-51: read the last event, take the time, hash, build the row.
NewEvent(id, args, prev_hash, now) ==
    AuditEvent(id, args.event_type, StrOrNone(args.actor_id), StrOrNone(args.org_id),
               args.entity_type, StrOrNone(args.entity_id), canonical_json(args.event_payload), now, prev_hash,
               compute_event_hash(prev_hash, args.event_type, args.actor_id, args.entity_type,
                                  args.entity_id, args.event_payload, now))

\* default=lambda: str(uuid.uuid4()): an id no row and no pending event has.
FreshId ==
    CHOOSE id \in 1..(MaxEvents + NumProcs) :
        /\ \A r \in store : r.id # id
        /\ \A q \in Procs : ev[q].id # id

Release(locks, p) == [o \in Clients |-> IF locks[o] = p THEN 0 ELSE locks[o]]

\* json.dumps raises TypeError on a value that is not a JSON type; the
\* exception leaves append_audit_event at line 38 with neither commit nor
\* rollback: the transaction, and with it the row lock, stays open.
ReadLast(p) ==
    /\ pc[p] = "read"
    /\ IF Serializable(call[p].event_payload)
       THEN /\ \E prev_hash \in (IF LastEvents(store, call[p].org_id) = {} THEN {None}
                                 ELSE {last_event.event_hash : last_event \in LastEvents(store, call[p].org_id)}) :
                  ev' = [ev EXCEPT ![p] = NewEvent(FreshId, call[p], prev_hash, now_utc(clock))]
            /\ pc' = [pc EXCEPT ![p] = "commit"]
            /\ UNCHANGED <<lock, res>>
       ELSE /\ pc' = [pc EXCEPT ![p] = "done"]
            /\ res' = [res EXCEPT ![p] = Failure("TypeError", "not_serializable")]
            /\ UNCHANGED <<lock, ev>>
    /\ UNCHANGED <<dialect, store, clock, call, out, holds, edit, domain, packages, job, ingestion_jobs, delayed, response, chain, pending_events, verified>>

\* The foreign key audit_events.org_id -> clients.client_id, where enforced.
ForeignKeyOk(org_id) == dialect = "postgresql" /\ org_id # None => org_id \in Clients

\* Lines 52-59: commit, refresh, or rollback and raise RuntimeError.  The
\* commit fails when the store cannot be reached or when the foreign key
\* rejects the row of an organization without a Client row; whatever the
\* cause, the caller gets RuntimeError.
Commit(p) ==
    /\ pc[p] = "commit"
    /\ \E outcome \in {"ok", "store_unavailable", "missing_org", "refresh_failed"} :
          /\ outcome = "missing_org" => ~ForeignKeyOk(ev[p].org_id)
          /\ outcome \in {"ok", "refresh_failed"} => ForeignKeyOk(ev[p].org_id)
          /\ store' = IF outcome \in {"store_unavailable", "missing_org"} THEN store ELSE InsertRow(store, ev[p])
          /\ res' = [res EXCEPT ![p] =
                        IF outcome = "ok"
                        THEN Returned([ev[p] EXCEPT !.created_at = StoredDateTime(ev[p].created_at)])
                        ELSE Failure("RuntimeError", outcome)]
    /\ lock' = Release(lock, p)
    /\ pc' = [pc EXCEPT ![p] = "done"]
    /\ UNCHANGED <<dialect, clock, call, ev, out, holds, edit, domain, packages, job, ingestion_jobs, delayed, response, chain, pending_events, verified>>

\* The caller takes the outcome and its request ends: the session is closed,
\* which rolls back a transaction left open and releases its row lock.
Return(p) ==
    /\ pc[p] = "done"
    /\ pc' = [pc EXCEPT ![p] = "idle"]
    /\ call' = [call EXCEPT ![p] = NoCall]
    /\ ev' = [ev EXCEPT ![p] = NoEvent]
    /\ res' = [res EXCEPT ![p] = NoResult]
    /\ lock' = Release(lock, p)
    /\ UNCHANGED <<dialect, store, clock, out, holds, edit, domain, packages, job, ingestion_jobs, delayed, response, chain, pending_events, verified>>

\* GET /audit/verify-chain
verify_chain(org_id) ==
    /\ \E events \in Orderings(OrgRows(store, org_id)) :
          out' = [NoOut EXCEPT !.op = "verify", !.org_id = org_id, !.events = events,
                                  !.result = verify_audit_chain(events)]
    /\ UNCHANGED <<dialect, store, clock, lock, pc, call, ev, res, holds, edit, domain, packages, job, ingestion_jobs, delayed, response, chain, pending_events, verified>>

\* GET /audit/events
get_events(org_id) ==
    /\ \E events \in Orderings(IF Truthy(org_id) THEN OrgRows(store, org_id) ELSE store) :
          out' = [NoOut EXCEPT !.op = "list", !.org_id = org_id, !.events = events]
    /\ UNCHANGED <<dialect, store, clock, lock, pc, call, ev, res, holds, edit, domain, packages, job, ingestion_jobs, delayed, response, chain, pending_events, verified>>

\* The query without the filter on the active flag.
check_litigation_hold_any(org_id) ==
    /\ out' = [NoOut EXCEPT !.op = "hold", !.org_id = org_id,
                            !.active = (\E hold \in holds : hold.org_id = org_id)]
    /\ UNCHANGED <<dialect, store, clock, lock, pc, call, ev, res, holds, edit, domain, packages, job, ingestion_jobs, delayed, response, chain, pending_events, verified>>

check_litigation_hold(org_id) ==
    /\ out' = [NoOut EXCEPT !.op = "hold", !.org_id = org_id,
                            !.active = (\E hold \in holds : hold.org_id = org_id /\ hold.active)]
    /\ UNCHANGED <<dialect, store, clock, lock, pc, call, ev, res, holds, edit, domain, packages, job, ingestion_jobs, delayed, response, chain, pending_events, verified>>

Next ==
    \/ Tick
    \/ \E p \in Procs, args \in CallArgs : Call(p, args)
    \/ \E p \in Procs : Lock(p)
    \/ \E p \in Procs : ReadLast(p)
    \/ \E p \in Procs : Commit(p)
    \/ \E p \in Procs : Return(p)
    \/ \E org_id \in OrgArgs : verify_chain(org_id)
    \/ \E org_id \in QueryArgs : get_events(org_id)
    \/ \E org_id \in OrgArgs : check_litigation_hold(org_id)

Spec == Init /\ [][Next]_vars

\* Calls made one after the other: no invocation starts while another runs.
SeqCall(p, args) == (\A q \in Procs : pc[q] = "idle") /\ Call(p, args)

SeqNext ==
    \/ Tick
    \/ \E p \in Procs, args \in CallArgs : SeqCall(p, args)
    \/ \E p \in Procs : Lock(p)
    \/ \E p \in Procs : ReadLast(p)
    \/ \E p \in Procs : Commit(p)
    \/ \E p \in Procs : Return(p)
    \/ \E org_id \in OrgArgs : verify_chain(org_id)
    \/ \E org_id \in QueryArgs : get_events(org_id)
    \/ \E org_id \in OrgArgs : check_litigation_hold(org_id)

SpecSeq == Init /\ [][SeqNext]_vars

\* Calls for the organizations that have a Client row.
RegisteredArgs == {args \in CallArgs : args.org_id \in Clients}

\* Concurrent invocations of append_audit_event alone, for registered
\* organizations.
AppendNext ==
    \/ Tick
    \/ \E p \in Procs, args \in RegisteredArgs : Call(p, args)
    \/ \E p \in Procs : Lock(p)
    \/ \E p \in Procs : ReadLast(p)
    \/ \E p \in Procs : Commit(p)
    \/ \E p \in Procs : Return(p)

SpecAppend == Init /\ [][AppendNext]_vars

\* Appends one after the other, verification, listing and the hold check at
\* one instant, over the contents of litigation_holds: no row, an inactive
\* row or an active row for OrgA, no row or an active row for OrgB.
HoldTables ==
    {rowsA \cup rowsB :
        rowsA \in {{}, {[org_id |-> OrgA, active |-> FALSE]}, {[org_id |-> OrgA, active |-> TRUE]}},
        rowsB \in {{}, {[org_id |-> OrgB, active |-> TRUE]}}}

HoldInit ==
    /\ dialect \in Dialects
    /\ store = {}
    /\ clock = 0
    /\ lock = [o \in Clients |-> 0]
    /\ pc = [p \in Procs |-> "idle"]
    /\ call = [p \in Procs |-> NoCall]
    /\ ev = [p \in Procs |-> NoEvent]
    /\ res = [p \in Procs |-> NoResult]
    /\ out = NoOut
    /\ holds \in HoldTables
    /\ edit = NoEdit
    /\ domain = {}
    /\ packages = NoPackages
    /\ job = [p \in Procs |-> NoJob]
    /\ ingestion_jobs = {}
    /\ delayed = <<>>
    /\ response = NoResponse
    /\ chain = <<>>
    /\ pending_events = <<>>
    /\ verified = NoVerdict

HoldNext ==
    \/ \E p \in Procs, args \in RegisteredArgs : SeqCall(p, args)
    \/ \E p \in Procs : Lock(p)
    \/ \E p \in Procs : ReadLast(p)
    \/ \E p \in Procs : Commit(p)
    \/ \E p \in Procs : Return(p)
    \/ \E org_id \in Clients : verify_chain(org_id)
    \/ \E org_id \in Clients : get_events(org_id)
    \/ \E org_id \in OrgArgs : check_litigation_hold(org_id)

SpecHold == HoldInit /\ [][HoldNext]_vars

----------------------------------------------------------------------------
(* Collaborators: ai_interpretation_service.py and export_service.py commit *)
(* their own change and then call append_audit_event.                       *)

\* str(n) of a small positive integer.
str(n) == <<[c |-> ToString(n)]>>

AI_INTERPRETATION_CREATED == Txt(<<"AI_INTERPRETATION_CREATED">>)

AI_INTERPRETATION_REVOKED == Txt(<<"AI_INTERPRETATION_REVOKED">>)

EXPORT_CREATED == Txt(<<"EXPORT_CREATED">>)

\* Rows of ai_interpretations and export_records.
AIInterpretation(id, org_id, revoked) ==
    [table |-> "ai_interpretation", id |-> id, org_id |-> org_id, revoked |-> revoked,
     package_hash |-> None, download_url |-> [org_id |-> None, now |-> 0]]

ExportRecord(id, org_id, package_hash, download_url) ==
    [table |-> "export_record", id |-> id, org_id |-> org_id, revoked |-> FALSE,
     package_hash |-> package_hash, download_url |-> download_url]

\* Integer primary key: one more than the greatest of the table.
NextId(table) ==
    LET ids == {d.id : d \in {x \in domain : x.table = table}}
    IN  IF ids = {} THEN 1 ELSE 1 + (CHOOSE i \in ids : \A j \in ids : j <= i)

\* The keyword arguments of the three call sites.
AuditCall(event_type, org_id, entity_type, entity_id, event_payload) ==
    [event_type |-> event_type, actor_id |-> Txt(<<"u">>), org_id |-> org_id,
     entity_type |-> Txt(<<entity_type>>), entity_id |-> str(entity_id), event_payload |-> event_payload]

\* The organization the collaborators are called for.
CollabOrgs == {OrgA}

\* Operations started and not yet ended with a row of their own.
Started == Cardinality(domain) + Cardinality({q \in Procs : job[q].op = "export"})

\* Lines 46-68: insert and commit the interpretation, then the audit call
\* with {"input_refs": ..., "simulated": ...}.
generate_ai_interpretation(p, org_id) ==
    /\ pc[p] = "idle"
    /\ Started < MaxOps
    /\ domain' = domain \cup {AIInterpretation(NextId("ai_interpretation"), org_id, FALSE)}
    /\ call' = [call EXCEPT ![p] = AuditCall(AI_INTERPRETATION_CREATED, org_id, "ai_interpretation",
                                                NextId("ai_interpretation"), Obj(<<<<"a", "1">>, <<"b", "2">>>>))]
    /\ pc' = [pc EXCEPT ![p] = "lock"]
    /\ UNCHANGED <<dialect, store, clock, lock, ev, res, out, holds, edit, packages, job, ingestion_jobs, delayed, response, chain, pending_events, verified>>

\* Lines 70-85: mark the interpretation revoked, commit, then the audit call
\* with {"revoked_at": interp.revoked_at}, a datetime.
revoke_ai_interpretation(p, interpretation_id) ==
    /\ pc[p] = "idle"
    /\ \E interp \in domain :
          /\ interp.table = "ai_interpretation" /\ interp.id = interpretation_id
          /\ ~interp.revoked
          /\ domain' = (domain \ {interp}) \cup {[interp EXCEPT !.revoked = TRUE]}
          /\ call' = [call EXCEPT ![p] = AuditCall(AI_INTERPRETATION_REVOKED, interp.org_id, "ai_interpretation",
                                                      interp.id, Obj(<<<<"a", NotJson>>>>))]
    /\ pc' = [pc EXCEPT ![p] = "lock"]
    /\ UNCHANGED <<dialect, store, clock, lock, ev, res, out, holds, edit, packages, job, ingestion_jobs, delayed, response, chain, pending_events, verified>>

\* Organizations with a RiskScore row; for the others line 49 raises
\* AttributeError on score.id and the export ends there.
ScoredOrgs == {OrgA}

\* export_dir = regulatory_exports/org_{org_id}_{now to the second}
ExportPath(org_id, now) == [org_id |-> org_id, now |-> now]

\* open(path, "w") and write: the file of that name is replaced.
WriteFile(files, path, name, content) ==
    {f \in files : ~(f.path = path /\ f.name = name)} \cup {[path |-> path, name |-> name, content |-> content]}

\* One entry of audit_events.json (lines 73-83); org_id is not exported.
ExportedEvent(e) ==
    [id |-> e.id, event_type |-> e.event_type, actor_id |-> e.actor_id, entity_type |-> e.entity_type,
     entity_id |-> e.entity_id, event_payload |-> e.event_payload, created_at |-> isoformat(e.created_at),
     prev_event_hash |-> e.prev_event_hash, event_hash |-> e.event_hash]

\* json.dump of a list and of a dict.
json_dump_list(items) == Txt(<<"[">>) \o items \o Txt(<<"]">>)

json_dump_dict(d) == Txt(<<"{">>) \o <<d>> \o Txt(<<"}">>)

\* The dict verify_audit_chain returns (lines 83 and 85).
ChainResultDict(result) ==
    IF result.valid THEN [valid |-> TRUE]
    ELSE [valid |-> FALSE, first_invalid_event_id |-> result.first_invalid_event_id]

compute_file_hash(content) == sha256(content)

\* Lines 107-112: the hashes of the files under risk_scores, audit_log and
\* metadata (manifest.json is outside), sorted, joined and hashed.
PackageHash(files, path) ==
    sha256(<<[sorted |-> {compute_file_hash(f.content) : f \in {x \in files : x.path = path /\ x.name # "manifest.json"}}]>>)

\* Lines 26-84: take the time, write the risk score files, query the
\* organization's events and write audit_events.json.
export_regulatory_package(p, org_id) ==
    /\ pc[p] = "idle"
    /\ Started < MaxOps
    /\ org_id \in ScoredOrgs
    /\ \E events \in Orderings(OrgRows(store, org_id)) :
          LET path == ExportPath(org_id, clock)
              f1 == WriteFile(packages.files, path, "risk_scores/risk_score.json", Txt(<<"risk_score">>))
              f2 == WriteFile(f1, path, "risk_scores/component_breakdown.json", Txt(<<"component_breakdown">>))
              f3 == WriteFile(f2, path, "audit_log/audit_events.json",
                              json_dump_list([i \in DOMAIN events |-> ExportedEvent(events[i])]))
          IN  packages' = [packages EXCEPT !.files = f3]
    /\ job' = [job EXCEPT ![p] = [op |-> "export", org_id |-> org_id, now |-> clock, package_hash |-> None]]
    /\ pc' = [pc EXCEPT ![p] = "export_verify"]
    /\ UNCHANGED <<dialect, store, clock, lock, call, ev, res, out, holds, edit, domain, ingestion_jobs, delayed, response, chain, pending_events, verified>>

\* Lines 85-112: verify the chain with a query of its own, write the result
\* and the metadata, and hash the files now in the directory.  When
\* verify_audit_chain raises, the export ends with the exception.
ExportVerify(p) ==
    /\ pc[p] = "export_verify"
    /\ \E chain_result \in ChainResults(store, job[p].org_id) :
          IF chain_result.status = "raised"
          THEN /\ pc' = [pc EXCEPT ![p] = "idle"]
               /\ job' = [job EXCEPT ![p] = NoJob]
               /\ UNCHANGED packages
          ELSE LET path == ExportPath(job[p].org_id, job[p].now)
                   f1 == WriteFile(packages.files, path, "audit_log/hash_chain_verification.json",
                                   json_dump_dict(ChainResultDict(chain_result)))
                   f2 == WriteFile(f1, path, "metadata/system_version.json", Txt(<<"system_version">>))
                   f3 == WriteFile(f2, path, "metadata/environment.json", Txt(<<"environment">>))
               IN  /\ packages' = [packages EXCEPT !.files = f3]
                   /\ job' = [job EXCEPT ![p].package_hash = PackageHash(f3, path)]
                   /\ pc' = [pc EXCEPT ![p] = "export_finish"]
    /\ UNCHANGED <<dialect, store, clock, lock, call, ev, res, out, holds, edit, domain, ingestion_jobs, delayed, response, chain, pending_events, verified>>

\* Lines 113-145: write manifest.json, zip the directory as it is now,
\* insert and commit the ExportRecord, then the audit call.
ExportFinish(p) ==
    /\ pc[p] = "export_finish"
    /\ LET path == ExportPath(job[p].org_id, job[p].now)
           manifest == [org_id |-> job[p].org_id, package_hash |-> job[p].package_hash]
           f1 == WriteFile(packages.files, path, "manifest.json", json_dump_dict(manifest))
           zip == [path |-> path, manifest |-> manifest,
                   files |-> {[name |-> f.name, content |-> f.content] : f \in {x \in f1 : x.path = path}}]
       IN  /\ packages' = [files |-> f1, zips |-> {z \in packages.zips : z.path # path} \cup {zip}]
           /\ domain' = domain \cup {ExportRecord(NextId("export_record"), job[p].org_id, job[p].package_hash, path)}
           /\ call' = [call EXCEPT ![p] = AuditCall(EXPORT_CREATED, job[p].org_id, "export_record",
                                                       NextId("export_record"), Obj(<<<<"a", "1">>, <<"b", "2">>>>))]
    /\ job' = [job EXCEPT ![p] = NoJob]
    /\ pc' = [pc EXCEPT ![p] = "lock"]
    /\ UNCHANGED <<dialect, store, clock, lock, ev, res, out, holds, edit, ingestion_jobs, delayed, response, chain, pending_events, verified>>

CollabNext ==
    \/ Tick
    \/ \E p \in Procs, org_id \in CollabOrgs : generate_ai_interpretation(p, org_id)
    \/ \E p \in Procs, interpretation_id \in 1..MaxOps : revoke_ai_interpretation(p, interpretation_id)
    \/ \E p \in Procs, org_id \in CollabOrgs : export_regulatory_package(p, org_id)
    \/ \E p \in Procs : ExportVerify(p)
    \/ \E p \in Procs : ExportFinish(p)
    \/ \E p \in Procs : Lock(p)
    \/ \E p \in Procs : ReadLast(p)
    \/ \E p \in Procs : Commit(p)
    \/ \E p \in Procs : Return(p)

SpecCollab == Init /\ [][CollabNext]_vars

----------------------------------------------------------------------------
(* The verifier on stored content it did not write: a chain of OrgA whose  *)
(* hashes and links are consistent as stored, and at most one event of     *)
(* OrgB, then one direct change in storage (edited columns of a row of     *)
(* OrgA or the row removed), with one verification before the change and   *)
(* one after it.                                                           *)

SeedText == canonical_json(Obj(<<<<"a", "1">>>>))

\* A row whose event_hash is the hash of its own stored columns after prev.
SeedRow(id, prev_hash, t) ==
    LET e == AuditEvent(id, Txt(<<"S">>), None, OrgA, Txt(<<"s">>), Txt(<<"7">>), SeedText,
                        DateTime(t, FALSE), prev_hash, None)
    IN  [e EXCEPT !.event_hash = ExpectedHash(prev_hash, e)]

RECURSIVE SeedChains(_, _, _, _)
SeedChains(rows, n, prev_hash, t) ==
    {rows} \cup
    (IF n >= MaxSeed THEN {}
     ELSE UNION {SeedChains(rows \cup {SeedRow(n + 1, prev_hash, t2)}, n + 1,
                            SeedRow(n + 1, prev_hash, t2).event_hash, t2) : t2 \in t..MaxClock})

\* What OrgB has stored: nothing, or one event consistent as stored.
OtherSeeds ==
    {{}} \cup {{[SeedRow(MaxSeed + 1, None, t) EXCEPT !.org_id = OrgB]} : t \in 0..MaxClock}

StoreInit ==
    /\ dialect = "postgresql"
    /\ store \in {rows \cup other : rows \in SeedChains({}, 0, None, 0), other \in OtherSeeds}
    /\ clock = MaxClock
    /\ lock = [o \in Clients |-> 0]
    /\ pc = [p \in Procs |-> "idle"]
    /\ call = [p \in Procs |-> NoCall]
    /\ ev = [p \in Procs |-> NoEvent]
    /\ res = [p \in Procs |-> NoResult]
    /\ out = NoOut
    /\ holds = HoldTable
    /\ edit = NoEdit
    /\ domain = {}
    /\ packages = NoPackages
    /\ job = [p \in Procs |-> NoJob]
    /\ ingestion_jobs = {}
    /\ delayed = <<>>
    /\ response = NoResponse
    /\ chain = <<>>
    /\ pending_events = <<>>
    /\ verified = NoVerdict

EditTexts ==
    { SeedText,
      Txt(<<"{", " ", "\"", "a", "\"", ":", "1", "}">>),
      Txt(<<"{", "\"", "a", "\"", ":", "2", "}">>),
      Txt(<<"{", "\"", "a", "\"", ":", "1">>) }

EditTypes == {Txt(<<"S">>), Txt(<<"E">>)}

EditActors == {None, <<>>, Txt(<<"u">>)}

\* Values an edited prev_event_hash column may take.
EditPrevs == {None, sha256(<<>>)}

EditColumn(kind, id, value) ==
    /\ edit = NoEdit
    /\ \E r \in store :
          /\ r.id = id
          /\ value # r[kind]
          /\ store' = (store \ {r}) \cup {[r EXCEPT ![kind] = value]}
          /\ edit' = [kind |-> kind, id |-> id, was |-> r]
    /\ out' = NoOut
    /\ UNCHANGED <<dialect, clock, lock, pc, call, ev, res, holds, domain, packages, job, ingestion_jobs, delayed, response, chain, pending_events, verified>>

\* Changes of event_type and actor_id made together: the character of
\* event_type moved into actor_id, and both replaced.
EditPairs == {<<<<>>, Txt(<<"S">>)>>, <<Txt(<<"E">>), Txt(<<"u">>)>>}

\* UPDATE audit_events SET event_type = ..., actor_id = ... WHERE id = ...
EditColumns(id, event_type, actor_id) ==
    /\ edit = NoEdit
    /\ \E r \in store :
          /\ r.id = id
          /\ <<event_type, actor_id>> # <<r.event_type, r.actor_id>>
          /\ store' = (store \ {r}) \cup {[r EXCEPT !.event_type = event_type, !.actor_id = actor_id]}
          /\ edit' = [kind |-> "columns", id |-> id, was |-> r]
    /\ out' = NoOut
    /\ UNCHANGED <<dialect, clock, lock, pc, call, ev, res, holds, domain, packages, job, ingestion_jobs, delayed, response, chain, pending_events, verified>>

DeleteRow(id) ==
    /\ edit = NoEdit
    /\ \E r \in store :
          /\ r.id = id
          /\ store' = store \ {r}
          /\ edit' = [kind |-> "delete", id |-> id, was |-> r]
    /\ out' = NoOut
    /\ UNCHANGED <<dialect, clock, lock, pc, call, ev, res, holds, domain, packages, job, ingestion_jobs, delayed, response, chain, pending_events, verified>>

StoreNext ==
    \/ \E id \in 1..MaxSeed, text \in EditTexts : EditColumn("event_payload", id, text)
    \/ \E id \in 1..MaxSeed, type \in EditTypes : EditColumn("event_type", id, type)
    \/ \E id \in 1..MaxSeed, actor \in EditActors : EditColumn("actor_id", id, actor)
    \/ \E id \in 1..MaxSeed, prev \in EditPrevs : EditColumn("prev_event_hash", id, prev)
    \/ \E id \in 1..MaxSeed, pair \in EditPairs : EditColumns(id, pair[1], pair[2])
    \/ \E id \in 1..MaxSeed : EditColumn("org_id", id, OrgB)
    \/ \E id \in 1..MaxSeed : DeleteRow(id)
    \/ \E org_id \in Clients : out = NoOut /\ verify_chain(org_id)

SpecStore == StoreInit /\ [][StoreNext]_vars

----------------------------------------------------------------------------
(* canonical_json and compute_event_hash on their own: each caller holds    *)
(* arguments with a payload dict built in some insertion order and calls    *)
(* compute_event_hash with a previous hash and a created_at.                *)

Pairs == {<<k, d>> : k \in Keys, d \in Digits}

\* The dicts of at most two keys, in every insertion order.
Dicts ==
    {<<>>} \cup {<<kv>> : kv \in Pairs}
           \cup {<<kv1, kv2>> : kv1 \in {x \in Pairs : x[1] = "a"}, kv2 \in {x \in Pairs : x[1] = "b"}}
           \cup {<<kv2, kv1>> : kv1 \in {x \in Pairs : x[1] = "a"}, kv2 \in {x \in Pairs : x[1] = "b"}}

HashArgs == [event_type : EventTypes, actor_id : Actors, org_id : {OrgA},
             entity_type : EntityTypes, entity_id : EntityIds, event_payload : {Obj(d) : d \in Dicts}]

PrevHashes == {None, sha256(<<>>)}

HashTimes == {0, MaxClock}

HashInit ==
    /\ dialect = "postgresql"
    /\ store = {}
    /\ clock = 0
    /\ lock = [o \in Clients |-> 0]
    /\ pc = [p \in Procs |-> "idle"]
    /\ call \in [Procs -> HashArgs]
    /\ ev = [p \in Procs |-> NoEvent]
    /\ res = [p \in Procs |-> NoResult]
    /\ out = NoOut
    /\ holds = HoldTable
    /\ edit = NoEdit
    /\ domain = {}
    /\ packages = NoPackages
    /\ job = [p \in Procs |-> NoJob]
    /\ ingestion_jobs = {}
    /\ delayed = <<>>
    /\ response = NoResponse
    /\ chain = <<>>
    /\ pending_events = <<>>
    /\ verified = NoVerdict

\* Lines 38-51 with the given previous hash and time: the hash and the
\* canonical payload text of the caller's arguments.
Hash(p, prev_hash, t) ==
    /\ ev[p] = NoEvent
    /\ ev' = [ev EXCEPT ![p] = NewEvent(p, call[p], prev_hash, DateTime(t, TRUE))]
    /\ UNCHANGED <<dialect, store, clock, lock, pc, call, res, out, holds, edit, domain, packages, job, ingestion_jobs, delayed, response, chain, pending_events, verified>>

HashNext == \E p \in Procs, prev_hash \in PrevHashes, t \in HashTimes : Hash(p, prev_hash, t)

SpecHash == HashInit /\ [][HashNext]_vars

----------------------------------------------------------------------------
(* IRS-990 ingestion: the endpoint, the job table ingestion_jobs and the    *)
(* task queue of the background worker.                                     *)

\* `len(job_in.ein) < 9`
MinEinLen == 9

Ein9 == Txt(<<"1", "2", "3", "4", "5", "6", "7", "8", "9">>)

Ein8 == Txt(<<"1", "2", "3", "4", "5", "6", "7", "8">>)

\* IngestionJobCreate: org_id is Optional[str] (absent, empty, or an id), ein
\* is a str; tax_year is left absent.
JobRequests == [org_id : {None, <<>>, OrgA, OrgB}, ein : {<<>>, Ein8, Ein9}]

\* IngestionJob row
IngestionJob(id, org_id, ein, status) ==
    [id |-> id, org_id |-> org_id, ein |-> ein, tax_year |-> None, status |-> status]

Answer(status, user, job_in, job_id) ==
    [status |-> status, user |-> user, org_id |-> job_in.org_id, ein |-> job_in.ein, job_id |-> job_id]

\* create_ingestion_job: one row in status "queued", its id from the sequence.
create_ingestion_job(org_id, ein) ==
    IngestionJob(Cardinality(ingestion_jobs) + 1, org_id, ein, "queued")

\* POST /ingestion/irs990 by the authenticated client `user`.  The commit of
\* create_ingestion_job and the enqueueing by delay() may each raise; neither
\* is caught, the request then ends with status 500.
irs990(user, job_in) ==
    /\ Cardinality(ingestion_jobs) < MaxOps
    /\ IF Truthy(job_in.org_id) /\ job_in.org_id # user
       THEN /\ response' = Answer(403, user, job_in, 0)
            /\ UNCHANGED <<ingestion_jobs, delayed>>
       ELSE IF ~Truthy(job_in.ein) \/ Len(job_in.ein) < MinEinLen
       THEN /\ response' = Answer(400, user, job_in, 0)
            /\ UNCHANGED <<ingestion_jobs, delayed>>
       ELSE \E outcome \in {"ok", "store_unavailable", "broker_unavailable"} :
               LET created == create_ingestion_job(user, job_in.ein)
               IN  /\ ingestion_jobs' = IF outcome = "store_unavailable" THEN ingestion_jobs
                                        ELSE ingestion_jobs \cup {created}
                   /\ delayed' = IF outcome = "ok" THEN Append(delayed, created.id) ELSE delayed
                   /\ response' = IF outcome = "ok" THEN Answer(200, user, job_in, created.id)
                                  ELSE Answer(500, user, job_in, 0)
    /\ UNCHANGED <<dialect, store, clock, lock, pc, call, ev, res, out, holds, edit, domain, packages, job,
                   chain, pending_events, verified>>

\* task_process_ingestion_job(job_id) taken from the queue by the worker:
\* process_ingestion_job sets the job running, fetches, and ends it succeeded
\* or failed; a job id without a row is dropped.
task_process_ingestion_job ==
    /\ delayed # <<>>
    /\ \E status \in {"succeeded", "failed"} :
          ingestion_jobs' = {IF j.id = Head(delayed) THEN [j EXCEPT !.status = status] ELSE j :
                                j \in ingestion_jobs}
    /\ delayed' = Tail(delayed)
    /\ UNCHANGED <<dialect, store, clock, lock, pc, call, ev, res, out, holds, edit, domain, packages, job,
                   response, chain, pending_events, verified>>

IngestNext ==
    \/ \E user \in Clients, job_in \in JobRequests : irs990(user, job_in)
    \/ task_process_ingestion_job

SpecIngest == Init /\ [][IngestNext]_vars

----------------------------------------------------------------------------
(* BlockchainAuditTrail: an in-memory chain of blocks of audit events, the  *)
(* list of pending events, mining and verify_chain; and a change made to a  *)
(* block after it was added.                                                *)

\* "0" * 64
ZeroHash == Txt(<<"0", "0">>)

\* self.difficulty
difficulty == 2

\* `len(self.pending_events) >= 10`
MineThreshold == 10

\* AuditEvent of the trail (timestamp: datetime.utcnow at creation).
TrailEvent(event_id, timestamp, user_id, ip_address) ==
    [event_id |-> event_id, event_type |-> "scan_completed", timestamp |-> timestamp,
     user_id |-> user_id, client_id |-> OrgA, action_description |-> Txt(<<"s">>),
     data_snapshot |-> Obj(<<>>), ip_address |-> ip_address]

\* _hash_event: the digest of the JSON of event_id, event_type, timestamp,
\* user_id, client_id, action and data; ip_address and user_agent are not in.
hash_event(event) ==
    sha256(<<[event_id |-> event.event_id, event_type |-> event.event_type,
              timestamp |-> event.timestamp, user_id |-> event.user_id,
              client_id |-> event.client_id, action |-> event.action_description,
              data |-> canonical_json(event.data_snapshot)]>>)

RECURSIVE CombinePairs(_)
CombinePairs(hashes) ==
    IF hashes = <<>> THEN <<>>
    ELSE <<sha256(hashes[1] \o hashes[2])>> \o CombinePairs(SubSeq(hashes, 3, Len(hashes)))

RECURSIVE MerkleTree(_)
MerkleTree(hashes) ==
    IF Len(hashes) = 1 THEN hashes[1]
    ELSE MerkleTree(CombinePairs(IF Len(hashes) % 2 # 0 THEN Append(hashes, hashes[Len(hashes)])
                                 ELSE hashes))

\* _calculate_merkle_root: an odd level repeats its last hash.
calculate_merkle_root(events) ==
    IF events = <<>> THEN sha256(<<>>)
    ELSE MerkleTree([i \in DOMAIN events |-> hash_event(events[i])])

\* _calculate_block_hash: block_id, timestamp, previous_hash, merkle_root and
\* nonce; the events themselves and the status are not in.
calculate_block_hash(block) ==
    sha256(<<[block_id |-> block.block_id, timestamp |-> block.timestamp,
              previous_hash |-> block.previous_hash, merkle_root |-> block.merkle_root,
              nonce |-> block.nonce]>>)

\* hash.startswith("0" * difficulty).  Which digests start with zeros is a
\* fixed property of the digest function: here a block digest does when the
\* nonce and block_id in its input have an even sum, a literal text when its
\* first characters are zeros.
startswith_target(h) ==
    IF h = <<>> THEN FALSE
    ELSE IF "sha" \in DOMAIN h[1]
         THEN /\ Len(h[1].sha) = 1
              /\ "nonce" \in DOMAIN h[1].sha[1]
              /\ (h[1].sha[1].nonce + h[1].sha[1].block_id) % 2 = 0
         ELSE /\ Len(h) >= difficulty
              /\ \A i \in 1..difficulty : h[i] = [c |-> "0"]

\* _mine_block: the first nonce from 0 whose block hash meets the target (with
\* the target above that is 0 or 1, far from the limit on the tries).
mine_nonce(block) ==
    CHOOSE nonce \in 0..1 :
        /\ startswith_target(calculate_block_hash([block EXCEPT !.nonce = nonce]))
        /\ \A n \in 0..(nonce - 1) : ~startswith_target(calculate_block_hash([block EXCEPT !.nonce = n]))

Block(block_id, timestamp, events, previous_hash) ==
    [block_id |-> block_id, timestamp |-> timestamp, events |-> events,
     previous_hash |-> previous_hash, nonce |-> 0, hash |-> <<>>, merkle_root |-> <<>>,
     status |-> "pending"]

\* _create_genesis_block: hashed with nonce 0, not mined.
GenesisBlock(t) ==
    LET genesis_event == [TrailEvent(Txt(<<"G">>), t, Txt(<<"S">>), None) EXCEPT
                              !.client_id = Txt(<<"S">>), !.action_description = Txt(<<"i">>)]
        b0 == [Block(0, t, <<genesis_event>>, ZeroHash) EXCEPT
                  !.merkle_root = calculate_merkle_root(<<genesis_event>>)]
    IN  [b0 EXCEPT !.hash = calculate_block_hash(b0), !.status = "verified"]

\* __init__
TrailInit ==
    /\ dialect = "postgresql"
    /\ store = {}
    /\ clock = 0
    /\ lock = [o \in Clients |-> 0]
    /\ pc = [p \in Procs |-> "idle"]
    /\ call = [p \in Procs |-> NoCall]
    /\ ev = [p \in Procs |-> NoEvent]
    /\ res = [p \in Procs |-> NoResult]
    /\ out = NoOut
    /\ holds = HoldTable
    /\ edit = NoEdit
    /\ domain = {}
    /\ packages = NoPackages
    /\ job = [p \in Procs |-> NoJob]
    /\ ingestion_jobs = {}
    /\ delayed = <<>>
    /\ response = NoResponse
    /\ chain = <<GenesisBlock(0)>>
    /\ pending_events = <<>>
    /\ verified = NoVerdict

\* The block mine_block adds for the pending events.
MinedBlock(events) ==
    LET b1 == Block(Len(chain), clock, events,
                    IF chain # <<>> THEN chain[Len(chain)].hash ELSE ZeroHash)
        b2 == [b1 EXCEPT !.merkle_root = calculate_merkle_root(events)]
        b3 == [b2 EXCEPT !.nonce = mine_nonce(b2)]
    IN  [b3 EXCEPT !.hash = calculate_block_hash(b3), !.status = "mined"]

\* mine_block with pending events (without any it returns None).
mine_block ==
    /\ pending_events # <<>>
    /\ Len(chain) <= MaxEvents
    /\ chain' = Append(chain, MinedBlock(pending_events))
    /\ pending_events' = <<>>
    /\ UNCHANGED <<dialect, store, clock, lock, pc, call, ev, res, out, holds, edit, domain, packages, job,
                   ingestion_jobs, delayed, response, verified>>

\* log_event: the event joins the pending ones; at the threshold the block
\* is mined at once.
log_event(user_id, ip_address) ==
    /\ Len(pending_events) < MaxOps
    /\ Len(chain) <= MaxEvents
    /\ LET event == TrailEvent(<<[evt |-> clock]>>, clock, user_id, ip_address)
           pending == Append(pending_events, event)
       IN  IF Len(pending) >= MineThreshold
           THEN /\ chain' = Append(chain, MinedBlock(pending))
                /\ pending_events' = <<>>
           ELSE /\ pending_events' = pending
                /\ UNCHANGED chain
    /\ UNCHANGED <<dialect, store, clock, lock, pc, call, ev, res, out, holds, edit, domain, packages, job,
                   ingestion_jobs, delayed, response, verified>>

BlockError(i, text) == [block |-> i, error |-> text]

\* The errors verify_chain collects for the block at index i >= 1 (0-based).
BlockErrors(blocks, i) ==
    LET current_block == blocks[i + 1]
        previous_block == blocks[i]
    IN  (IF current_block.previous_hash # previous_block.hash
         THEN <<BlockError(i, "Invalid previous hash link")>> ELSE <<>>)
        \o (IF current_block.hash # calculate_block_hash(current_block)
            THEN <<BlockError(i, "Hash mismatch (tampered)")>> ELSE <<>>)
        \o (IF current_block.merkle_root # calculate_merkle_root(current_block.events)
            THEN <<BlockError(i, "Merkle root mismatch (events tampered)")>> ELSE <<>>)
        \o (IF ~startswith_target(current_block.hash)
            THEN <<BlockError(i, "Invalid proof of work")>> ELSE <<>>)

RECURSIVE LoopErrors(_, _)
LoopErrors(blocks, i) ==
    IF i >= Len(blocks) THEN <<>> ELSE BlockErrors(blocks, i) \o LoopErrors(blocks, i + 1)

\* The errors of verify_chain: the genesis test, then range(1, len(chain)).
ChainErrors(blocks) ==
    IF blocks = <<>> THEN <<BlockError(0, "Blockchain is empty")>>
    ELSE (IF blocks[1].previous_hash # ZeroHash THEN <<BlockError(0, "Invalid genesis block")>> ELSE <<>>)
         \o LoopErrors(blocks, 1)

\* BlockchainAuditTrail.verify_chain
trail_verify_chain ==
    /\ verified' = [called |-> TRUE, is_valid |-> Len(ChainErrors(chain)) = 0, errors |-> ChainErrors(chain)]
    /\ UNCHANGED <<dialect, store, clock, lock, pc, call, ev, res, out, holds, edit, domain, packages, job,
                   ingestion_jobs, delayed, response, chain, pending_events>>

\* Values a changed hash field may take: text, or a digest of something else.
TamperHashes == {ZeroHash, Txt(<<"0", "0", "f">>), sha256(<<>>)}

\* Event lists a changed block may carry: one event rewritten (its user_id or
\* only its ip_address), an event dropped, or the last event repeated.
TamperEvents(events) ==
    IF events = <<>> THEN {}
    ELSE {[events EXCEPT ![i].user_id = Txt(<<"m">>)] : i \in DOMAIN events}
           \cup {[events EXCEPT ![i].ip_address = Txt(<<"9">>)] : i \in DOMAIN events}
           \cup {SubSeq(events, 1, Len(events) - 1), Append(events, events[Len(events)])}

\* A block of the chain is changed in memory after it was added.
Tamper(i, field, value) ==
    /\ edit = NoEdit
    /\ i \in DOMAIN chain
    /\ value # chain[i][field]
    /\ chain' = [chain EXCEPT ![i][field] = value]
    /\ edit' = [kind |-> field, id |-> i, was |-> chain[i]]
    /\ verified' = NoVerdict
    /\ UNCHANGED <<dialect, store, clock, lock, pc, call, ev, res, out, holds, domain, packages, job,
                   ingestion_jobs, delayed, response, pending_events>>

TrailNext ==
    \/ Tick
    \/ \E user_id \in Actors, ip_address \in {None} : log_event(user_id, ip_address)
    \/ mine_block
    \/ trail_verify_chain
    \/ \E i \in 1..(MaxEvents + 1) :
          \/ \E value \in TamperEvents(IF i \in DOMAIN chain THEN chain[i].events ELSE <<>>) :
                Tamper(i, "events", value)
          \/ \E field \in {"merkle_root", "hash", "previous_hash"}, value \in TamperHashes :
                Tamper(i, field, value)
          \/ \E field \in {"nonce", "timestamp"}, value \in 0..(MaxClock + 1) : Tamper(i, field, value)

SpecTrail == TrailInit /\ [][TrailNext]_vars

----------------------------------------------------------------------------
(* Properties *)

\* events[i] carries the hash of events[i-1]; the first carries none.
Linked(events) ==
    \A i \in 1..Len(events) :
        events[i].prev_event_hash = (IF i = 1 THEN None ELSE events[i - 1].event_hash)

\* C1: after any sequence of successful appends, each organization's stored
\* events taken in created_at order form one linked chain.
C1_ChainLinked ==
    \A org_id \in OrgArgs : \A events \in Orderings(OrgRows(store, org_id)) : Linked(events)

\* C2: under every interleaving of concurrent appends on one registered
\* organization no two of its stored events have the same prev_event_hash.
C2_NoFork ==
    \A r1, r2 \in store :
        r1 # r2 /\ r1.org_id = r2.org_id /\ r1.org_id \in Clients
            => r1.prev_event_hash # r2.prev_event_hash

\* C3: the hash recomputed from a stored row written by append equals the
\* hash computed at append time, so verification of untouched rows is valid.
C3_RecomputedHashEqual ==
    /\ \A r \in store : ExpectedHash(r.prev_event_hash, r) = r.event_hash
    /\ out.op = "verify" => out.result = Valid

\* The edited or removed row had a predecessor and a successor in the chain.
Interior(row, rows) ==
    /\ \E a \in rows : a.id # row.id /\ a.event_hash = row.prev_event_hash
    /\ \E b \in rows : b.id # row.id /\ b.prev_event_hash = row.event_hash

\* C4: after the payload, type or actor of one interior event of a verifying
\* chain was changed, verification reports invalid at exactly that event.
C4_TamperReported ==
    (/\ out.op = "verify"
     /\ edit.kind \in {"event_payload", "event_type", "actor_id"}
     /\ Interior(edit.was, store))
        => out.result = Invalid(edit.id)

\* First row, in the order walked, whose stored prev_event_hash is not the
\* event_hash of the row before it.
FirstBrokenLink(events) ==
    LET broken == {i \in 1..Len(events) :
                     events[i].prev_event_hash # (IF i = 1 THEN None ELSE events[i - 1].event_hash)}
    IN  IF broken = {} THEN 0 ELSE events[CHOOSE i \in broken : \A j \in broken : i <= j].id

\* C5: after one interior event of a verifying chain was removed,
\* verification reports invalid at the first surviving event whose link is
\* broken, which is the event that directly followed the removed one.
C5_DeletionReported ==
    (/\ out.op = "verify"
     /\ edit.kind = "delete"
     /\ Interior(edit.was, store))
        => /\ out.result.status = "ok"
           /\ ~out.result.valid
           /\ out.result.first_invalid_event_id = FirstBrokenLink(out.events)
           /\ \E f \in store : /\ f.prev_event_hash = edit.was.event_hash
                                /\ out.result.first_invalid_event_id = f.id

\* C6: an append for an organization without a registry record persists no
\* event and returns none.
C6_MissingOrgFailsClosed ==
    /\ \A r \in store : r.org_id \in Clients
    /\ \A p \in Procs : res[p].kind = "event" => call[p].org_id \in Clients

\* C7: an append ends either returning an event that is in the store as
\* returned, or reporting failure having persisted nothing.
C7_ReturnedOrNotWritten ==
    \A p \in Procs :
        pc[p] = "done" =>
            \/ res[p].kind = "event" /\ res[p].event \in store
            \/ res[p].kind = "error" /\ ~(\E r \in store : r.id = ev[p].id)

\* C8: verification never ends with an error, whatever is stored.
C8_VerifyNeverRaises ==
    out.op = "verify" => out.result.status = "ok"

\* The row at position i passes: its payload decodes and its stored hash is
\* the hash of its columns after the previous row's stored hash.
Passes(events, i) ==
    /\ json_loads(events[i].event_payload) # JsonError
    /\ events[i].event_hash =
           ExpectedHash(IF i = 1 THEN None ELSE events[i - 1].event_hash, events[i])

\* C9: verification returns valid exactly when every row walked passes, and
\* otherwise invalid with the id of the earliest row that does not.
C9_VerifyResult ==
    out.op = "verify" =>
        LET failing == {i \in 1..Len(out.events) : ~Passes(out.events, i)}
        IN  IF failing = {} THEN out.result = Valid
            ELSE out.result = Invalid(out.events[CHOOSE i \in failing : \A j \in failing : i <= j].id)

\* C10: the log is append-only: a step keeps every stored row as it is and
\* adds at most one, and a listing, verification or hold check adds none.
C10_AppendOnly ==
    [][/\ \A r \in store : r \in store'
       /\ Cardinality(store') <= Cardinality(store) + 1
       /\ out' # out => store' = store]_vars

C10_Witness ==
    /\ \E r1, r2 \in store : r1.org_id = r2.org_id /\ r2.prev_event_hash = r1.event_hash
    /\ out.op = "verify"
    /\ Len(out.events) = 2

\* C11: chains are partitioned by organization: the prev_event_hash of a
\* stored event is absent or the event_hash of another event of the same
\* organization, and a step changes the rows of an organization, and with
\* them what its verification can return, only by committing an append for
\* that organization.
C11_Partitioned ==
    /\ [](\A r \in store :
             \/ r.prev_event_hash = None
             \/ \E q \in store : q.id # r.id /\ q.org_id = r.org_id /\ q.event_hash = r.prev_event_hash)
    /\ [][store' # store =>
             \A org_id \in OrgArgs :
                 \/ /\ OrgRows(store', org_id) = OrgRows(store, org_id)
                    /\ ChainResults(store', org_id) = ChainResults(store, org_id)
                 \/ \E p \in Procs : /\ pc[p] = "commit" /\ pc'[p] = "done"
                                      /\ call[p].org_id = org_id
                                      /\ \A r \in OrgRows(store', org_id) \ OrgRows(store, org_id) : r.id = ev[p].id]_vars

C11_Witness ==
    \E a, b \in store :
        /\ a.org_id = OrgA /\ b.org_id = OrgB
        /\ a.created_at.t < b.created_at.t
        /\ b.prev_event_hash = None

\* Another invocation holds the row lock of the organization p appends to.
GateHeldByOther(p) ==
    /\ RowLocked(call[p].org_id)
    /\ lock[call[p].org_id] \notin {0, p}

\* C12: an append is never made to wait or fail by an append in progress for
\* another organization: whenever no other invocation holds the gate of its
\* own organization, its lock step goes on to the read, whatever gates of
\* other organizations are held.
C12_NoCrossOrgWait ==
    [][\A p \in Procs :
          (pc[p] = "lock" /\ pc'[p] # "lock" /\ ~GateHeldByOther(p))
              => (pc'[p] = "read" /\ res'[p] = NoResult)]_vars

\* An append for OrgA has read, written and returned its event after the
\* append that still holds the gate of OrgB took its timestamp.
C12_Witness ==
    \E p, q \in Procs :
        /\ p # q
        /\ lock[OrgB] = q /\ pc[q] = "commit" /\ call[q].org_id = OrgB
        /\ call[p].org_id = OrgA /\ pc[p] = "done" /\ res[p].kind = "event"
        /\ res[p].event.created_at.t > ev[q].created_at.t

\* C13: a verification that runs while an append for the same organization is
\* in progress returns valid for whatever rows it sees.
C13_ConcurrentVerifyValid ==
    [][(/\ out' # out
        /\ out'.op = "verify"
        /\ \E p \in Procs : pc[p] \in {"lock", "read", "commit"} /\ call[p].org_id = out'.org_id)
          => out'.result = Valid]_vars

\* The audit event of the given type for a row of a collaborator's table.
Recorded(event_type, d) ==
    \E r \in store : /\ r.event_type = event_type
                     /\ r.org_id = d.org_id
                     /\ r.entity_type = Txt(<<d.table>>)
                     /\ r.entity_id = str(d.id)

\* The collaborator's operation on the row has not ended yet.
InProgress(event_type, d) ==
    \E p \in Procs : /\ pc[p] # "idle"
                     /\ call[p].event_type = event_type
                     /\ call[p].entity_type = Txt(<<d.table>>)
                     /\ call[p].entity_id = str(d.id)

\* C14: once a collaborator's operation has ended, every interpretation it
\* committed has its AI_INTERPRETATION_CREATED event, every revocation its
\* AI_INTERPRETATION_REVOKED event and every export record its
\* EXPORT_CREATED event in the chain of the owning organization.
C14_ActionsRecorded ==
    \A d \in domain :
        /\ d.table = "ai_interpretation" =>
               InProgress(AI_INTERPRETATION_CREATED, d) \/ Recorded(AI_INTERPRETATION_CREATED, d)
        /\ d.revoked =>
               InProgress(AI_INTERPRETATION_REVOKED, d) \/ Recorded(AI_INTERPRETATION_REVOKED, d)
        /\ d.table = "export_record" =>
               InProgress(EXPORT_CREATED, d) \/ Recorded(EXPORT_CREATED, d)

\* The content of the named file in a zip archive.
ZipFile(z, name) == (CHOOSE f \in z.files : f.name = name).content

\* The package hash recomputed from the files of a zip archive.
ZipHash(z) ==
    sha256(<<[sorted |-> {compute_file_hash(f.content) : f \in {x \in z.files : x.name # "manifest.json"}}]>>)

\* The rows listed in audit_events.json are rows of the organization, each
\* once, in ascending created_at.
ListsEvents(content, org_id) ==
    LET items == SubSeq(content, 2, Len(content) - 1)
    IN  /\ \A i \in DOMAIN items : \E r \in OrgRows(store, org_id) : items[i] = ExportedEvent(r)
        /\ \A i, j \in DOMAIN items : i < j =>
               /\ items[i].id # items[j].id
               /\ \E r1, r2 \in OrgRows(store, org_id) :
                      /\ r1.id = items[i].id /\ r2.id = items[j].id
                      /\ r1.created_at.t <= r2.created_at.t

\* C19: every export package holds the organization's event list in
\* ascending created_at, a verifyChain result, and a manifest whose
\* package_hash is the hash over the files of the package; the export record
\* of a package carries the package hash of the package at its download_url.
\* The event list written is the full list and the result written is a
\* result of verifyChain at the time they are taken.
C19_ExportPackage ==
    /\ [](\A z \in packages.zips :
             /\ ListsEvents(ZipFile(z, "audit_log/audit_events.json"), z.path.org_id)
             /\ \E result \in {Valid} \cup {Invalid(r.id) : r \in store} :
                    ZipFile(z, "audit_log/hash_chain_verification.json") = json_dump_dict(ChainResultDict(result))
             /\ z.manifest.package_hash = ZipHash(z)
             /\ ZipFile(z, "manifest.json") = json_dump_dict(z.manifest)
             /\ \A d \in domain :
                    d.table = "export_record" /\ d.download_url = z.path => d.package_hash = z.manifest.package_hash)
    /\ [][\A p \in Procs :
             /\ pc[p] = "idle" /\ pc'[p] = "export_verify" =>
                    \E f \in packages'.files :
                        /\ f.path = ExportPath(job'[p].org_id, job'[p].now)
                        /\ f.name = "audit_log/audit_events.json"
                        /\ Len(f.content) = Cardinality(OrgRows(store, job'[p].org_id)) + 2
                        /\ ListsEvents(f.content, job'[p].org_id)
             /\ pc[p] = "export_verify" /\ pc'[p] = "export_finish" =>
                    \E f \in packages'.files, result \in ChainResults(store, job[p].org_id) :
                        /\ f.path = ExportPath(job[p].org_id, job[p].now)
                        /\ f.name = "audit_log/hash_chain_verification.json"
                        /\ f.content = json_dump_dict(ChainResultDict(result))]_vars

\* Two dicts with the same keys and values, whatever the insertion order.
SameMapping(d1, d2) == {d1.v[i] : i \in DOMAIN d1.v} = {d2.v[i] : i \in DOMAIN d2.v}

\* The text has no blank and no key "b" before a key "a".
SortedCompact(text) ==
    /\ \A i \in DOMAIN text : text[i] # SP
    /\ \A i, j \in DOMAIN text : i < j => ~(text[i] = [c |-> "b"] /\ text[j] = [c |-> "a"])

\* C15: two calls with equal arguments, the payloads equal as mappings in
\* whatever insertion order, the same previous hash and the same created_at
\* give the same hash and the same payload text, which has its keys sorted
\* and no whitespace; {"b":2,"a":1} and {"a":1,"b":2} both give
\* {"a":1,"b":2}.
C15_Determinism ==
    /\ canonical_json(Obj(<<<<"b", "2">>, <<"a", "1">>>>))
           = Txt(<<"{", "\"", "a", "\"", ":", "1", ",", "\"", "b", "\"", ":", "2", "}">>)
    /\ canonical_json(Obj(<<<<"a", "1">>, <<"b", "2">>>>))
           = Txt(<<"{", "\"", "a", "\"", ":", "1", ",", "\"", "b", "\"", ":", "2", "}">>)
    /\ \A p \in Procs : ev[p] # NoEvent => SortedCompact(ev[p].event_payload)
    /\ \A p, q \in Procs :
          (/\ ev[p] # NoEvent /\ ev[q] # NoEvent
           /\ [call[p] EXCEPT !.event_payload = Obj(<<>>)] = [call[q] EXCEPT !.event_payload = Obj(<<>>)]
           /\ SameMapping(call[p].event_payload, call[q].event_payload)
           /\ ev[p].prev_event_hash = ev[q].prev_event_hash
           /\ ev[p].created_at = ev[q].created_at)
              => /\ ev[p].event_hash = ev[q].event_hash
                 /\ ev[p].event_payload = ev[q].event_payload

C15_Witness ==
    \E p, q \in Procs :
        /\ Len(call[p].event_payload.v) = 2
        /\ call[p].event_payload # call[q].event_payload
        /\ SameMapping(call[p].event_payload, call[q].event_payload)
        /\ ev[p] # NoEvent /\ ev[q] # NoEvent
        /\ ev[p].event_hash = ev[q].event_hash

\* C16: every newly persisted event has created_at greater than or equal to
\* the created_at of every event already stored for its organization, and
\* that created_at is the time the append read, not a value of the caller.
C16_CreatedAtMonotonic ==
    [][\A r \in store' \ store :
          /\ \A q \in OrgRows(store, r.org_id) : q.created_at.t <= r.created_at.t
          /\ r.created_at.t <= clock]_vars

\* The kinds of failure a caller has to tell apart.
FailureKinds == {"missing_org", "lock_timeout", "store_unavailable"}

\* C17: an append for an organization without a registry record ends with a
\* failure, and two appends that failed for different kinds of cause end
\* with outcomes of different kinds.
C17_FailureKindsDistinct ==
    /\ \A p \in Procs : pc[p] = "done" /\ call[p].org_id \notin Clients => res[p].kind = "error"
    /\ \A p, q \in Procs :
          (/\ pc[p] = "done" /\ pc[q] = "done"
           /\ res[p].cause \in FailureKinds /\ res[q].cause \in FailureKinds
           /\ res[p].cause # res[q].cause)
              => res[p].exc # res[q].exc

\* C18: a listing returns exactly the stored events whose org_id is the
\* argument, each once, in ascending created_at, for every argument the
\* interface accepts.
C18_ListExactlyOrg ==
    [][(out' # out /\ out'.op = "list") =>
          /\ {out'.events[i] : i \in DOMAIN out'.events} = OrgRows(store, out'.org_id)
          /\ Len(out'.events) = Cardinality(OrgRows(store, out'.org_id))
          /\ \A i, j \in DOMAIN out'.events :
                 i < j => out'.events[i].created_at.t <= out'.events[j].created_at.t]_vars

\* C20: the hold check returns true exactly when the organization has a
\* hold row with the active flag set, and changes nothing; whatever the hold
\* rows are, every step of an append can be taken and the listing and the
\* verification can be run, their results are those of the stored events
\* alone, and no step changes the hold rows.
C20_HoldAdvisory ==
    /\ [](out.op = "hold" => (out.active <=> [org_id |-> out.org_id, active |-> TRUE] \in holds))
    /\ [](\A p \in Procs :
             /\ pc[p] = "lock" => ENABLED Lock(p)
             /\ pc[p] = "read" => ENABLED ReadLast(p)
             /\ pc[p] = "commit" => ENABLED Commit(p))
    /\ [][/\ holds' = holds
          /\ (out' # out /\ out'.op = "hold") =>
                 UNCHANGED <<dialect, store, clock, lock, pc, call, ev, res, holds, edit, domain, packages, job, ingestion_jobs, delayed, response, chain, pending_events, verified>>
          /\ (out' # out /\ out'.op = "verify") => out'.result \in ChainResults(store, out'.org_id)
          /\ (out' # out /\ out'.op = "list" /\ out'.org_id # None) =>
                 out'.events \in Orderings(OrgRows(store, out'.org_id))
          /\ \A p \in Procs :
                 (pc[p] = "commit" /\ pc'[p] = "done" /\ res'[p].kind = "error")
                     => res'[p].cause \in {"store_unavailable", "missing_org", "refresh_failed"}]_vars

\* With an active hold on OrgA an append for OrgA has stored and returned
\* its event, and the hold check for OrgA has answered true.
C20_Witness ==
    /\ [org_id |-> OrgA, active |-> TRUE] \in holds
    /\ \E r \in store : r.org_id = OrgA
    /\ out.op = "hold" /\ out.org_id = OrgA /\ out.active

\* C21: the ingestion endpoint answers 403, creating no job and dispatching
\* no task, to every request whose org_id is present and is not the caller's
\* id; a request it accepts creates exactly one job, queued and owned by the
\* caller, and dispatches the task once with that job's id.
C21_IngestionAuthorized ==
    [][response' # response =>
          /\ (response'.org_id # None /\ response'.org_id # response'.user)
                => /\ response'.status = 403
                   /\ ingestion_jobs' = ingestion_jobs
                   /\ delayed' = delayed
          /\ response'.status = 200
                => /\ \E j \in ingestion_jobs' :
                         /\ ingestion_jobs' = ingestion_jobs \cup {j}
                         /\ j \notin ingestion_jobs
                         /\ j.id = response'.job_id
                         /\ j.status = "queued"
                         /\ j.org_id = response'.user
                   /\ delayed' = Append(delayed, response'.job_id)]_vars

\* C22: verify_chain returns is_valid = False with at least one error
\* whenever the events, merkle_root, hash, nonce, timestamp or previous_hash
\* of any block of the chain, the genesis block included, was changed after
\* the block was added.
C22_TrailTamperReported ==
    (verified.called /\ edit.kind \in {"events", "merkle_root", "hash", "nonce", "timestamp", "previous_hash"})
        => ~verified.is_valid /\ Len(verified.errors) >= 1

\* The row at position i passes the walk of the Chain Verifier as specified:
\* its stored hash is the recomputed one and its stored prev_event_hash is
\* the hash expected before it.
PassesLinked(events, i) ==
    /\ events[i].event_hash =
           ExpectedHash(IF i = 1 THEN None ELSE events[i - 1].event_hash, events[i])
    /\ events[i].prev_event_hash = (IF i = 1 THEN None ELSE events[i - 1].event_hash)

\* C23: verification reports invalid at the first event whose recomputed
\* hash differs from its event_hash or whose stored prev_event_hash differs
\* from the expected previous hash; so an event whose prev_event_hash alone
\* was altered is reported.
C23_PrevHashEditReported ==
    (out.op = "verify" /\ edit.kind = "prev_event_hash") =>
        LET failing == {i \in 1..Len(out.events) : ~PassesLinked(out.events, i)}
        IN  /\ failing # {}
            /\ out.result = Invalid(out.events[CHOOSE i \in failing : \A j \in failing : i <= j].id)

\* C24: a payload that cannot be canonicalized is reported before the gate is
\* acquired and before any read or write: an invocation holding the gate has
\* a payload that canonicalizes, and one that failed on its payload holds no
\* gate and has built no event.
C24_CanonicalizeBeforeLock ==
    \A p \in Procs :
        /\ (\E o \in Clients : lock[o] = p) => Serializable(call[p].event_payload)
        /\ res[p].cause = "not_serializable" => (\A o \in Clients : lock[o] # p) /\ ev[p] = NoEvent

\* C25: the gate is released on every exit path: an invocation that has
\* ended, with an event or with any error, no longer holds the gate of its
\* organization.
C25_GateReleasedOnExit ==
    \A p \in Procs : pc[p] = "done" => \A o \in Clients : lock[o] # p

\* The fields compute_event_hash is given for a stored row.
FieldTuple(prev_hash, event) ==
    <<prev_hash, event.event_type, event.actor_id, event.entity_type, event.entity_id,
      json_loads(event.event_payload), event.created_at>>

\* C26: a change of one or several hashed fields of a stored event that gives
\* a different field tuple gives a different recomputed hash, so that
\* verification does not return valid.
C26_TupleChangeReported ==
    (/\ out.op = "verify"
     /\ edit.kind \in {"event_payload", "event_type", "actor_id", "columns"})
        => \A row \in store :
              (/\ row.id = edit.id
               /\ json_loads(row.event_payload) # JsonError
               /\ FieldTuple(edit.was.prev_event_hash, row) # FieldTuple(edit.was.prev_event_hash, edit.was))
                 => /\ ExpectedHash(edit.was.prev_event_hash, row)
                         # ExpectedHash(edit.was.prev_event_hash, edit.was)
                    /\ out.result # Valid

\* C27: after the org_id of a stored event of organization A was changed to
\* B, verification returns valid: false for A or for B, whatever the
\* position of the event in A and whatever B holds.
C27_OrgChangeReported ==
    (out.op = "verify" /\ edit.kind = "org_id")
        => \/ out.result # Valid
           \/ Valid \notin ChainResults(store, IF out.org_id = OrgA THEN OrgB ELSE OrgA)

\* The rows of r's organization persisted before r (appends made one after
\* the other take their ids in the order they are persisted).
PersistedBefore(r) == {q \in store : q.org_id = r.org_id /\ q.id < r.id}

\* C28: the predecessor an append selects is the most recently persisted
\* event of the organization, and verification walks the events in the order
\* they were persisted, also when created_at values are equal.
C28_PersistenceOrder ==
    /\ \A r \in store :
          r.prev_event_hash =
              (IF PersistedBefore(r) = {} THEN None
               ELSE (CHOOSE q \in PersistedBefore(r) : \A x \in PersistedBefore(r) : x.id <= q.id).event_hash)
    /\ out.op = "verify" =>
          \A i, j \in 1..Len(out.events) : i < j => out.events[i].id < out.events[j].id

\* The ids of the events listed in an audit_events.json.
ListedIds(content) == {content[i].id : i \in 2..(Len(content) - 1)}

\* C29: within one export the verifyChain result written to the package is
\* taken from the same events of the organization as the event list written
\* to it, also while appends for the organization run.
C29_ExportSameEvents ==
    [][\A p \in Procs :
          (pc[p] = "export_verify" /\ pc'[p] = "export_finish") =>
              \E f \in packages.files :
                  /\ f.path = ExportPath(job[p].org_id, job[p].now)
                  /\ f.name = "audit_log/audit_events.json"
                  /\ ListedIds(f.content) = {r.id : r \in OrgRows(store, job[p].org_id)}]_vars

\* C30: verification is prefix-closed: when it returns valid for the events
\* walked it returns valid for every prefix of them, the empty one included;
\* so after the most recent event of a chain that verifies was removed,
\* verification of what is left returns valid.
C30_PrefixClosed ==
    out.op = "verify" =>
        /\ out.result = Valid =>
              \A k \in 0..Len(out.events) : verify_audit_chain(SubSeq(out.events, 1, k)) = Valid
        /\ (edit.kind = "delete" /\ edit.was.org_id = out.org_id
              /\ verify_audit_chain(Append(out.events, edit.was)) = Valid)
              => out.result = Valid

C30_Witness ==
    /\ out.op = "verify"
    /\ edit.kind = "delete"
    /\ edit.was.org_id = out.org_id
    /\ Len(out.events) >= 1
    /\ edit.was.prev_event_hash = out.events[Len(out.events)].event_hash
    /\ \A i \in 1..Len(out.events) : out.events[i].created_at.t <= edit.was.created_at.t
    /\ out.result = Valid

====
